---- MODULE Spec2Model ----
(***************************************************************************)
(* Model of the store-profiling pipeline of shopify-store-profiler:        *)
(* generate_store_report (src/src/reporting.py) and the fetchers it calls  *)
(* (shopify_scraper.py, collections_scraper.py, sitemap_scraper.py,        *)
(* tech_stack.py, product_clustering.py).  The upstream store is the       *)
(* environment: every HTTP request is answered by a nondeterministically   *)
(* chosen response (a status with a body, or a transport failure).         *)
(***************************************************************************)
EXTENDS Integers, Sequences, FiniteSets, TLC

\* ------------------------------------------------------------------ bounds

\* page size passed as `limit` to the paginated fetchers (default 250)
Limit == 2
\* most <url> elements in one urlset document
MaxUrls == 1
\* most <sitemap> elements in one sitemapindex document
MaxChildren == 2
\* most rows of a product table handed to cluster_products on its own
MaxDocs == 310
\* greatest explicit n_clusters handed to cluster_products
MaxExplicitK == 7
\* most path segments of a URL handed to _classify_url
MaxSegments == 3
\* most tags of one product
MaxTags == 3
\* most products of a table normalized on its own
MaxRows == 2
\* most collections of a table summarized on its own
MaxCollections == 3
\* most entries of a sitemap summarized on its own
MaxEntries == 3
\* greatest max_examples_per_type handed to summarize_sitemap
MaxExamples == 2

\* --------------------------------------------------------- program constants

\* the only status the fetchers accept (resp.status_code != 200)
OkStatus == 200
\* cluster_products refuses fewer documents than this
MinClusterDocs == 5
\* summarize_collections(df, top_n=20)
TopN == 20

\* bound of the store: it serves a short page at the latest on this page, so
\* that it holds just enough items for clustering to be possible
MaxPages == (MinClusterDocs \div Limit) + 1

Min(a, b) == IF a < b THEN a ELSE b

Max(a, b) == IF a > b THEN a ELSE b

\* ------------------------------------------------------------- dictionaries

\* a Python dict is a function from its keys; {} is the function of no keys
EmptyDict == [k \in {} |-> TRUE]

IsEmptyDict(d) == DOMAIN d = {}

DictSet(d, key, val) ==
    [k \in (DOMAIN d) \cup {key} |-> IF k = key THEN val ELSE d[k]]

HasKey(d, key) == key \in DOMAIN d

\* d.get(key, default)
DictGet(d, key, default) == IF key \in DOMAIN d THEN d[key] ELSE default

\* None where a string is expected, and the absent text of an element
Null == "<null>"

\* an optional value: None, or a value
None == [given |-> FALSE, value |-> 0]

Some(v) == [given |-> TRUE, value |-> v]

\* ------------------------------------------------------------------- URLs

Url(path, limit, pg) == [path |-> path, limit |-> limit, page |-> pg]

NoUrl == Url("", 0, 0)

\* f"{base_url}/products.json?limit={limit}&page={page}"
ProductsUrl(pg) == Url("/products.json", Limit, pg)

\* f"{base_url}/collections.json?limit={limit}&page={page}"
CollectionsUrl(pg) == Url("/collections.json", Limit, pg)

\* base.rstrip("/") + "/sitemap.xml"
SitemapUrl == Url("/sitemap.xml", 0, 0)

\* requests.get(base, ...)
HomepageUrl == Url("/", 0, 0)

\* ----------------------------------------------------- normalize_store_url

\* a string is the sequence of its characters; the letters of a host name or
\* of a path segment that no test of the code looks into stand as one element
HttpPrefix == <<"h", "t", "t", "p", ":", "/", "/">>

HttpsPrefix == <<"h", "t", "t", "p", "s", ":", "/", "/">>

\* str.startswith
StartsWith(str, prefix) ==
    /\ Len(str) >= Len(prefix)
    /\ SubSeq(str, 1, Len(prefix)) = prefix

\* str.strip() for the whitespace the inputs hold, the space
RECURSIVE LStrip(_)
LStrip(str) ==
    IF str # << >> /\ Head(str) = " " THEN LStrip(Tail(str)) ELSE str

RECURSIVE RStrip(_)
RStrip(str) ==
    IF str # << >> /\ str[Len(str)] = " "
    THEN RStrip(SubSeq(str, 1, Len(str) - 1)) ELSE str

Strip(str) == RStrip(LStrip(str))

\* urlparse(url).netloc of a URL whose "//" has been consumed: what precedes
\* the first "/", "?" or "#"
RECURSIVE Netloc(_)
Netloc(rest) ==
    IF rest = << >> \/ Head(rest) \in {"/", "?", "#"} THEN << >>
    ELSE <<Head(rest)>> \o Netloc(Tail(rest))

\* shopify_scraper.normalize_store_url
normalize_store_url(store_url) ==
    LET stripped == Strip(store_url)
        url == IF ~StartsWith(stripped, HttpPrefix) /\ ~StartsWith(stripped, HttpsPrefix)
               THEN HttpsPrefix \o stripped
               ELSE stripped
        \* urlparse: the scheme is what precedes ":", the netloc follows "//"
        prefix == IF StartsWith(url, HttpsPrefix) THEN HttpsPrefix ELSE HttpPrefix
        scheme == SubSeq(prefix, 1, Len(prefix) - 3)
        netloc == Netloc(SubSeq(url, Len(prefix) + 1, Len(url)))
    IN  scheme \o <<":", "/", "/">> \o netloc

\* ------------------------------------------------------------- exceptions

\* An exception is its class and its message; the message is the text of
\* the format string together with the URL and the status it embeds
\* (NoUrl and 0 when the message embeds none).
Exc(type, text, url, status) ==
    [type |-> type, text |-> text, url |-> url, status |-> status]

NoError == Exc("", "", NoUrl, 0)

\* isinstance(e, cls) for the classes of the program: ShopifyScraperError and
\* ProductClusteringError both derive directly from Exception, as do the
\* library's exceptions
IsInstance(e, cls) == e # NoError /\ (cls = "Exception" \/ e.type = cls)

\* requests.get raising (timeout, connection failure): the fetchers have no
\* handler around it, so the library's exception leaves them unchanged
TransportError(url) == Exc("RequestException", "transport failure", url, 0)

\* shopify_scraper.fetch_products, bad status
ProductsStatusError(url, status) ==
    Exc("ShopifyScraperError", "Failed fetching {url} (status {status})", url, status)

\* mutant of CollectionsStatusError: 401 not refined
CollectionsStatusError_No401(url, status) ==
    IF status = 404
    THEN Exc("ShopifyScraperError", "collections.json not available (404)", NoUrl, 404)
    ELSE IF status = 403
    THEN Exc("ShopifyScraperError", "collections.json is not publicly accessible", NoUrl, 0)
    ELSE Exc("ShopifyScraperError", "Failed fetching {url} (status {status})", url, status)

\* collections_scraper.fetch_collections, bad status
CollectionsStatusError(url, status) ==
    IF status = 404
    THEN Exc("ShopifyScraperError", "collections.json not available (404)", NoUrl, 404)
    ELSE IF status = 401 \/ status = 403
    THEN Exc("ShopifyScraperError", "collections.json is not publicly accessible", NoUrl, 0)
    ELSE Exc("ShopifyScraperError", "Failed fetching {url} (status {status})", url, status)

StatusError(src, url, status) ==
    IF src = "products" THEN ProductsStatusError(url, status)
    ELSE CollectionsStatusError(url, status)

\* the error raised after the loop when nothing was accumulated
EmptyResultError(src) ==
    IF src = "products"
    THEN Exc("ShopifyScraperError", "No products found. Store may be empty or locked.", NoUrl, 0)
    ELSE Exc("ShopifyScraperError", "No collections returned from collections.json", NoUrl, 0)

\* -------------------------------------------------------- the upstream store

\* statuses the store may answer with
Statuses == {200, 204, 401, 403, 404, 500}

HttpResp(status, n) == [kind |-> "http", status |-> status, n |-> n]

TransportFailure == [kind |-> "transport", status |-> 0, n |-> 0]

\* answers to the request for page pg of a paginated endpoint: a finite store
\* serves a short page on page MaxPages at the latest
PageResponses(pg) ==
    {TransportFailure}
    \cup {HttpResp(s, 0) : s \in Statuses \ {OkStatus}}
    \cup {HttpResp(OkStatus, n) : n \in 0..(IF pg < MaxPages THEN Limit ELSE Limit - 1)}

\* the items of page pg, n of them: data.get(key, [])
Item(src, pg, i) == [src |-> src, page |-> pg, idx |-> i]

Batch(src, pg, n) == [i \in 1..n |-> Item(src, pg, i)]

\* ---------------------------------------------------------- paginated fetch

\* mutant of IsBadStatus: only client errors abort the fetch
IsBadStatus_ClientOnly(status) == status # OkStatus /\ status < 500

\* resp.status_code != 200
IsBadStatus(status) == status # OkStatus

\* after a non-empty batch: `if len(batch) < limit: break`, else page += 1
IsShortPage(batch, limit) == Len(batch) < limit

\* mutant of LoopContinues: `<=` for `<`, a full page ends the loop
LoopContinues_StopsOnFull(batch, limit) ==
    IF batch = << >> THEN FALSE
    ELSE Len(batch) > limit

\* the loop body after the status check: does the loop go on to another page
LoopContinues(batch, limit) ==
    IF batch = << >> THEN FALSE
    ELSE ~IsShortPage(batch, limit)

\* products.extend(batch), not reached for an empty batch
Extend(acc, batch) == IF batch = << >> THEN acc ELSE acc \o batch

\* ------------------------------------------------------------------ tables

\* a DataFrame: its rows in order and the names of its columns
Table(rows, cols) == [rows |-> rows, cols |-> cols]

\* no table (None; df_products before fetch_products returned)
NoTable == Table(<< >>, {})

\* fetch_products after the loop: pd.json_normalize plus the derived columns
ProductsTable(rows) ==
    Table(rows, {"id", "title", "handle", "body_html", "variants", "tags",
                 "first_variant_price", "title_len", "desc_len", "tags_list",
                 "product_type"})

\* the value under "products_count" of a raw collection that has the key:
\* null, a number, or a text
CountNull == [kind |-> "null", num |-> 0, text |-> ""]

CountInt(n) == [kind |-> "int", num |-> n, text |-> ""]

CountText(text) == [kind |-> "str", num |-> 0, text |-> text]

\* float("inf"): a number above every finite count a collection carries here
Infinity == 1000

\* pd.to_numeric(value, errors="coerce"); the text "inf" is a number to it
ToNumeric(v) ==
    IF v.kind = "int" THEN Some(v.num)
    ELSE IF v.kind = "str"
    THEN (CASE v.text = "12" -> Some(12)
            [] v.text = "0" -> Some(0)
            [] v.text = "inf" -> Some(Infinity)
            [] OTHER -> None)
    ELSE None

\* a raw collection is a record; it holds the key or not
HasCount(c) == "products_count" \in DOMAIN c

\* mutant of products_count_column: an absent field filled with zero
products_count_column_ZeroFill(collections) ==
    [i \in 1..Len(collections) |->
        IF HasCount(collections[i]) THEN ToNumeric(collections[i].products_count)
        ELSE Some(0)]

\* collections_scraper.py 66-69: the products_count column, coerced when some
\* collection holds the key (NaN in the rows that lack it), pd.NA otherwise
products_count_column(collections) ==
    IF \E i \in 1..Len(collections) : HasCount(collections[i])
    THEN [i \in 1..Len(collections) |->
             IF HasCount(collections[i]) THEN ToNumeric(collections[i].products_count)
             ELSE None]
    ELSE [i \in 1..Len(collections) |-> None]

\* fetch_collections after the loop: title, handle and products_count are
\* always columns of the result
CollectionsTable(rows) ==
    [rows |-> rows, cols |-> {"id", "title", "handle", "products_count"},
     products_count |-> products_count_column(rows)]

\* analyzer.analyze_products (the numeric summaries are not modelled)
analyze_products(df) == [n_products |-> Len(df.rows)]

\* the position of the greatest number of a non-empty sequence
ArgMax(nums) ==
    CHOOSE i \in 1..Len(nums) : \A j \in 1..Len(nums) : nums[i] >= nums[j]

\* sort_values(ascending=False)
RECURSIVE SortDescending(_)
SortDescending(nums) ==
    IF nums = << >> THEN << >>
    ELSE LET m == ArgMax(nums)
         IN  <<nums[m]>> \o SortDescending(SubSeq(nums, 1, m - 1)
                                            \o SubSeq(nums, m + 1, Len(nums)))

\* collections_scraper.py 97-104: int(row["products_count"]) on the rows
\* dropna kept; int() of an infinite float raises OverflowError
SummarizeError(df) ==
    IF \E i \in 1..Len(df.products_count) :
           df.products_count[i] = Some(Infinity)
    THEN Exc("OverflowError", "cannot convert float infinity to integer", NoUrl, 0)
    ELSE NoError

\* the raw collections /collections.json may serve: without the key, or
\* with null, a number, a numeric text, an infinite number or another text
\* under it
RawCollections ==
    {[handle |-> "c"]}
    \cup {[handle |-> "c", products_count |-> v] :
             v \in {CountNull, CountInt(0), CountInt(5), CountText("12"),
                    CountText("inf"), CountText("n/a")}}

\* what the fields of the collections served may make of
\* summarize_collections: NoError, or the exception one collection leads to
SummaryErrors == {SummarizeError(CollectionsTable(<<c>>)) : c \in RawCollections}

\* the value of summarize_collections that raised: there is none
NoSummary ==
    [n_collections |-> 0, collections_with_product_counts |-> 0,
     top_collections_by_products |-> << >>]

\* collections_scraper.summarize_collections when it returns (title and
\* handle of the top collections and the template counts are not modelled)
summarize_collections(df) ==
    LET kept == SelectSeq(df.products_count, LAMBDA v : v.given)
        sorted == SortDescending([i \in 1..Len(kept) |-> kept[i].value])
        top == SubSeq(sorted, 1, Min(Len(sorted), TopN))
    IN  [n_collections |-> Len(df.rows),
         collections_with_product_counts |-> Len(kept),
         top_collections_by_products |->
             [i \in 1..Len(top) |-> [products_count |-> top[i]]]]

\* ------------------------------------------------------ product normalization

\* the value under "tags" of a raw product: the key is missing, holds null,
\* a list of strings, or one string
TagsMissing == [kind |-> "missing", items |-> << >>, text |-> << >>]

TagsNull == [kind |-> "null", items |-> << >>, text |-> << >>]

TagsList(items) == [kind |-> "list", items |-> items, text |-> << >>]

TagsText(text) == [kind |-> "str", items |-> << >>, text |-> text]

\* str.split(sep): the pieces between the separators, empty ones included
RECURSIVE SplitFrom(_, _, _)
SplitFrom(str, sep, piece) ==
    IF str = << >> THEN <<piece>>
    ELSE IF Head(str) = sep THEN <<piece>> \o SplitFrom(Tail(str), sep, << >>)
    ELSE SplitFrom(Tail(str), sep, Append(piece, Head(str)))

Split(str, sep) == SplitFrom(str, sep, << >>)

\* [t.strip() for t in tokens if t.strip()]
RECURSIVE StripNonEmpty(_)
StripNonEmpty(tokens) ==
    IF tokens = << >> THEN << >>
    ELSE (IF Strip(Head(tokens)) = << >> THEN << >> ELSE <<Strip(Head(tokens))>>)
         \o StripNonEmpty(Tail(tokens))

\* shopify_scraper.py 72-77, on the value of one row of the "tags" column
\* (NaN for a product without the key, None for null: pd.isna holds of both)
normalize_tags(x) ==
    IF x.kind = "list" THEN StripNonEmpty(x.items)
    ELSE IF x.kind \in {"missing", "null"} THEN << >>
    ELSE StripNonEmpty(Split(x.text, ","))

\* the value under "variants" of a raw product: missing, or a list of
\* variants, each with the text under "price" (Null when it has none)
VariantsMissing == [kind |-> "missing", items |-> << >>]

VariantsList(prices) ==
    [kind |-> "list", items |-> [i \in 1..Len(prices) |-> [price |-> prices[i]]]]

\* float(text) in hundredths: None for a text that is no number
ParseFloat(text) ==
    CASE text = "12.50" -> Some(1250)
      [] text = "7" -> Some(700)
      [] text = "0.00" -> Some(0)
      [] OTHER -> None

\* the exception float(price) raises, NoError when it returns
FloatError(price) ==
    IF price = Null
    THEN Exc("TypeError", "float() argument must be a string or a real number, not 'NoneType'", NoUrl, 0)
    ELSE IF ~ParseFloat(price).given
    THEN Exc("ValueError", "could not convert string to float", NoUrl, 0)
    ELSE NoError

\* shopify_scraper.py 59: does the lambda call float() on this row
HasFirstVariant(vs) == vs.kind = "list" /\ vs.items # << >>

\* shopify_scraper.py 59: the value of first_variant_price for one row whose
\* float() call, if any, returned
first_variant_price(vs) ==
    IF HasFirstVariant(vs) THEN ParseFloat(vs.items[1].price) ELSE None

PriceError(vs) ==
    IF HasFirstVariant(vs) THEN FloatError(vs.items[1].price) ELSE NoError

\* a raw product as /products.json serves it
RawProduct(tags, variants, has_type) ==
    [tags |-> tags, variants |-> variants, has_type |-> has_type]

\* pd.json_normalize: a column exists when some record holds the key
HasTagsColumn(products) ==
    \E i \in 1..Len(products) : products[i].tags.kind # "missing"

HasVariantsColumn(products) ==
    \E i \in 1..Len(products) : products[i].variants.kind # "missing"

HasTypeColumn(products) ==
    \E i \in 1..Len(products) : products[i].has_type

\* df.get(column, "") without the column is the str "", which has none of
\* the methods of a Series
NoSeriesMethod(method) ==
    Exc("AttributeError",
        IF method = "apply" THEN "'str' object has no attribute 'apply'"
        ELSE "'str' object has no attribute 'fillna'", NoUrl, 0)

\* the first row whose float() call raises, 0 when none does
FirstPriceFailure(products) ==
    IF \E i \in 1..Len(products) : PriceError(products[i].variants) # NoError
    THEN CHOOSE i \in 1..Len(products) :
            /\ PriceError(products[i].variants) # NoError
            /\ \A j \in 1..(i - 1) : PriceError(products[j].variants) = NoError
    ELSE 0

\* shopify_scraper.py 54-84: the exception the code after the loop raises
\* for these products, NoError when it returns the table
NormalizeError(products) ==
    IF HasVariantsColumn(products) /\ FirstPriceFailure(products) # 0
    THEN PriceError(products[FirstPriceFailure(products)].variants)
    ELSE IF ~HasTagsColumn(products) THEN NoSeriesMethod("apply")
    ELSE IF ~HasTypeColumn(products) THEN NoSeriesMethod("fillna")
    ELSE NoError

\* what the fields of the products served may make of the code after the
\* loop: NoError, or the exception one product shape leads to
ContentErrors ==
    {NormalizeError(<<RawProduct(t, v, ty)>>) :
        t \in {TagsMissing, TagsList(<<<<"Red">>>>)},
        v \in {VariantsMissing, VariantsList(<<"7">>), VariantsList(<<Null>>),
               VariantsList(<<"abc">>)},
        ty \in BOOLEAN}

\* analyzer.summarize_numeric on a column of optional numbers (mean, median
\* and the quantiles are not modelled)
summarize_numeric(series) ==
    LET kept == SelectSeq(series, LAMBDA v : v.given)
        vals == {kept[i].value : i \in 1..Len(kept)}
    IN  IF kept = << >> THEN EmptyDict
        ELSE [k \in {"count", "min", "max"} |->
                 CASE k = "count" -> Len(kept)
                   [] k = "min" -> CHOOSE v \in vals : \A w \in vals : v <= w
                   [] k = "max" -> CHOOSE v \in vals : \A w \in vals : v >= w]

\* the code of fetch_products after its loop, with the price summary
\* analyze_products makes of the table: the exception raised, or the
\* derived columns
normalize_products(products) ==
    LET e == NormalizeError(products)
        prices == [i \in 1..Len(products) |-> first_variant_price(products[i].variants)]
    IN  IF e # NoError
        THEN [error |-> e, first_variant_price |-> << >>, tags_list |-> << >>,
              price_stats |-> EmptyDict]
        ELSE [error |-> e,
              first_variant_price |-> prices,
              tags_list |-> [i \in 1..Len(products) |-> normalize_tags(products[i].tags)],
              price_stats |-> summarize_numeric(prices)]

\* ---------------------------------------------------------------- clustering

\* mutant of NClusters: without `if n_clusters > n_docs: n_clusters = n_docs`
NClusters_Uncapped(n_clusters, n_docs) ==
    IF ~n_clusters.given THEN Max(2, Min(10, n_docs \div 30))
    ELSE n_clusters.value

\* product_clustering.py 52-57: the number of clusters KMeans is built with
NClusters(n_clusters, n_docs) ==
    LET k == IF ~n_clusters.given THEN Max(2, Min(10, n_docs \div 30))
             ELSE n_clusters.value
    IN  IF k > n_docs THEN n_docs ELSE k

\* n_clusters = max(2, min(10, n_docs // 30)), then capped at n_docs
ChooseK(n_docs) == NClusters(None, n_docs)

\* what the library does in this run: "ok", "no_sklearn" (the lazy import
\* fails) or "vectorizer_error" (TfidfVectorizer raises, e.g. empty vocabulary)
ClusterEnvs == {"ok", "no_sklearn", "vectorizer_error"}

\* the exception cluster_products raises, NoError when it returns
ClusterError(df, env) ==
    IF env = "no_sklearn"
    THEN Exc("ProductClusteringError", "scikit-learn is required for product clustering", NoUrl, 0)
    ELSE IF Len(df.rows) < MinClusterDocs
    THEN Exc("ProductClusteringError", "Not enough products to perform clustering.", NoUrl, 0)
    ELSE IF env = "vectorizer_error"
    THEN Exc("ValueError", "empty vocabulary", NoUrl, 0)
    ELSE NoError

\* the clustering summary (the per-cluster statistics are not modelled)
ClusterSummary(df) ==
    LET k == ChooseK(Len(df.rows))
    IN  [n_clusters |-> k, clusters |-> [i \in 1..k |-> [cluster_id |-> i - 1]]]

\* df["cluster"] = labels
WithClusterColumn(df) == Table(df.rows, df.cols \cup {"cluster"})

\* a product table of n rows
TableOfRows(n) == ProductsTable([i \in 1..n |-> i])

\* cluster_products(df, n_clusters): the exception it raises (NoError when it
\* returns) and the number of clusters of the summary it returns
cluster_products(df, n_clusters, env) ==
    LET e == ClusterError(df, env)
    IN  [error |-> e,
         n_clusters |-> IF e = NoError THEN NClusters(n_clusters, Len(df.rows))
                        ELSE 0]

\* ------------------------------------------------------------ sitemap, XML

\* a sequence of at most n elements of S
SeqUpTo(S, n) == UNION {[1..k -> S] : k \in 0..n}

\* element tags are strings, modelled as sequences of characters
UrlsetTag == <<"u", "r", "l", "s", "e", "t">>

IndexTag == <<"s", "i", "t", "e", "m", "a", "p", "i", "n", "d", "e", "x">>

\* "{namespace}" as ElementTree prefixes it to a tag
NsPrefix == <<"{", "n", "s", "}">>

RootTags ==
    {NsPrefix \o UrlsetTag, <<"U", "R", "L", "S", "E", "T">>,
     NsPrefix \o IndexTag, <<"r", "s", "s">>}

\* str.lower on the characters the tags use
LowerChar(c) ==
    CASE c = "U" -> "u" [] c = "R" -> "r" [] c = "L" -> "l"
      [] c = "S" -> "s" [] c = "E" -> "e" [] c = "T" -> "t"
      [] OTHER -> c

Lower(str) == [i \in 1..Len(str) |-> LowerChar(str[i])]

\* str.endswith
EndsWith(str, suffix) ==
    /\ Len(str) >= Len(suffix)
    /\ SubSeq(str, Len(str) - Len(suffix) + 1, Len(str)) = suffix

\* a <url> element: the text of its <loc> (a path, as its segments) if it has
\* one, and the text of its <lastmod> or Null
UrlElement(has_loc, loc, lastmod) ==
    [has_loc |-> has_loc, loc |-> loc, lastmod |-> lastmod]

\* the <url> element at position j of document d when it has a <loc>: the
\* path names the document and the position
LocatedUrl(d, j) ==
    UrlElement(TRUE, <<IF j % 2 = 1 THEN "products" ELSE "pages", d, j>>,
               IF j % 2 = 1 THEN Null ELSE "2024-01-01")

\* a <url> element without <loc>
UnlocatedUrl == UrlElement(FALSE, << >>, Null)

\* the lists of <url> children document d may hold
UrlLists(d) ==
    UNION {{[j \in 1..k |-> IF f[j] THEN LocatedUrl(d, j) ELSE UnlocatedUrl]
            : f \in [1..k -> BOOLEAN]} : k \in 0..MaxUrls}

\* a parsed document: the root's tag, its <url> children and, for each of its
\* <sitemap> children, whether it has a non-empty <loc>
Doc(tag, urls, sitemaps) == [tag |-> tag, urls |-> urls, sitemaps |-> sitemaps]

\* _fetch_xml returned None
NoDoc == Doc(<< >>, << >>, << >>)

IsUrlsetTag(tag) == EndsWith(Lower(tag), UrlsetTag)

IsIndexTag(tag) == EndsWith(Lower(tag), IndexTag)

\* the documents the store may serve as document d (0 is /sitemap.xml, i > 0
\* the i-th child of the index)
Docs(d) ==
    {Doc(t, u, << >>) : t \in {t \in RootTags : IsUrlsetTag(t)},
                        u \in UrlLists(d)}
    \cup {Doc(t, << >>, c) : t \in {t \in RootTags : IsIndexTag(t)},
                             c \in SeqUpTo(BOOLEAN, MaxChildren)}
    \cup {Doc(t, << >>, << >>) : t \in {t \in RootTags :
                                        ~IsUrlsetTag(t) /\ ~IsIndexTag(t)}}

XmlResp(kind, status, parses, doc) ==
    [kind |-> kind, status |-> status, parses |-> parses, doc |-> doc]

\* answers to the request for XML document d
XmlResponses(d) ==
    {XmlResp("transport", 0, FALSE, NoDoc)}
    \cup {XmlResp("http", s, FALSE, NoDoc) : s \in {404, 500}}
    \cup {XmlResp("http", OkStatus, FALSE, NoDoc)}
    \cup {XmlResp("http", OkStatus, TRUE, x) : x \in Docs(d)}

\* _fetch_xml after requests.get returned: None for a bad status or a
\* document that does not parse
fetch_xml(resp) ==
    IF IsBadStatus(resp.status) THEN NoDoc
    ELSE IF ~resp.parses THEN NoDoc
    ELSE resp.doc

RECURSIVE parse_urlset_from(_, _)
parse_urlset_from(els, i) ==
    IF i > Len(els) THEN << >>
    ELSE IF ~els[i].has_loc THEN parse_urlset_from(els, i + 1)
    ELSE <<[loc |-> els[i].loc, lastmod |-> els[i].lastmod]>>
         \o parse_urlset_from(els, i + 1)

\* _parse_urlset: (loc, lastmod) of every <url> with a non-empty <loc>
parse_urlset(root) == parse_urlset_from(root.urls, 1)

\* the URL of the i-th <sitemap> child of the index
ChildUrl(i) == Url("/sitemap_child.xml", 0, i)

\* what _parse_sitemapindex adds to urls for a fetched child
ChildUrls(child_root) ==
    IF child_root = NoDoc THEN << >>
    ELSE IF IsUrlsetTag(child_root.tag) THEN parse_urlset(child_root)
    ELSE << >>

\* the next <sitemap> child at or after position i that has a <loc>, or
\* Len + 1 when there is none
RECURSIVE NextChild(_, _)
NextChild(sitemaps, i) ==
    IF i > Len(sitemaps) THEN Len(sitemaps) + 1
    ELSE IF sitemaps[i] THEN i
    ELSE NextChild(sitemaps, i + 1)

\* `sub in str`
Contains(str, sub) ==
    \E i \in 0..(Len(str) - Len(sub)) : SubSeq(str, i + 1, i + Len(sub)) = sub

\* str.lower on a URL: a capitalised segment name becomes the plain one
LowerSegment(c) ==
    CASE c = "Products" -> "products"
      [] c = "Collections" -> "collections"
      [] OTHER -> c

LowerPath(str) == [i \in 1..Len(str) |-> LowerSegment(str[i])]

\* what follows the first "?" or "#" is dropped
RECURSIVE UpToQuery(_)
UpToQuery(rest) ==
    IF rest = << >> \/ Head(rest) \in {"?", "#"} THEN << >>
    ELSE <<Head(rest)>> \o UpToQuery(Tail(rest))

\* urlparse(url).path of an absolute URL: what follows the netloc, up to the
\* query or the fragment
UrlPath(url) ==
    LET prefix == IF StartsWith(url, HttpsPrefix) THEN HttpsPrefix ELSE HttpPrefix
        rest == SubSeq(url, Len(prefix) + 1, Len(url))
        netloc == Netloc(rest)
    IN  UpToQuery(SubSeq(rest, Len(netloc) + 1, Len(rest)))

Slashed(name) == <<"/", name, "/">>

\* mutant of classify_url: the /collections/ test moved before /products/
classify_url_CollectionsFirst(url) ==
    LET path == LowerPath(UrlPath(url))
    IN  IF Contains(path, Slashed("collections")) THEN "collection"
        ELSE IF Contains(path, Slashed("products")) THEN "product"
        ELSE IF Contains(path, Slashed("blogs")) THEN "blog"
        ELSE IF Contains(path, Slashed("pages")) THEN "page"
        ELSE "other"

\* sitemap_scraper._classify_url
classify_url(url) ==
    LET path == LowerPath(UrlPath(url))
    IN  IF Contains(path, Slashed("products")) THEN "product"
        ELSE IF Contains(path, Slashed("collections")) THEN "collection"
        ELSE IF Contains(path, Slashed("blogs")) THEN "blog"
        ELSE IF Contains(path, Slashed("pages")) THEN "page"
        ELSE "other"

SitemapUnavailable ==
    Exc("ShopifyScraperError", "sitemap.xml not available or invalid", NoUrl, 0)

SitemapIndexEmpty ==
    Exc("ShopifyScraperError", "No URLs found in sitemap index", NoUrl, 0)

SitemapUnsupported ==
    Exc("ShopifyScraperError", "Unsupported sitemap.xml structure", NoUrl, 0)

\* fetch_sitemap_urls after _parse_sitemapindex returned urls
IndexResult(urls) == IF urls = << >> THEN SitemapIndexEmpty ELSE NoError

\* sitemap_scraper.summarize_sitemap (counts and examples are not modelled)
summarize_sitemap(urls) == [total_urls |-> Len(urls)]

\* the lastmod of an entry: None, or a text, the sequence of the code points
\* of its characters
NoLastmod == [given |-> FALSE, text |-> << >>]

Lastmod(text) == [given |-> TRUE, text |-> text]

SitemapEntry(loc, lastmod) == [loc |-> loc, lastmod |-> lastmod]

\* a <= b for str: by the first character that differs, a prefix first
RECURSIVE StrLeq(_, _)
StrLeq(a, b) ==
    IF a = << >> THEN TRUE
    ELSE IF b = << >> THEN FALSE
    ELSE IF Head(a) # Head(b) THEN Head(a) < Head(b)
    ELSE StrLeq(Tail(a), Tail(b))

\* max(lastmods), left to right
RECURSIVE MaxStr(_, _)
MaxStr(best, texts) ==
    IF texts = << >> THEN best
    ELSE MaxStr(IF StrLeq(Head(texts), best) THEN best ELSE Head(texts), Tail(texts))

\* mutant of IsTruthy: `if lastmod is not None`
IsTruthy_NotNone(lastmod) == lastmod.given

\* `if lastmod:` -- neither None nor the empty string
IsTruthy(lastmod) == lastmod.given /\ lastmod.text # << >>

\* sitemap_scraper.py 119-134: latest_lastmod
latest_lastmod(entries) ==
    LET kept == SelectSeq(entries, LAMBDA e : IsTruthy(e.lastmod))
        lastmods == [i \in 1..Len(kept) |-> kept[i].lastmod.text]
    IN  IF lastmods = << >> THEN NoLastmod
        ELSE Lastmod(MaxStr(Head(lastmods), Tail(lastmods)))

\* the entries of one type, in order
OfType(entries, url_type) ==
    SelectSeq(entries, LAMBDA e : classify_url(e.loc) = url_type)

\* the types that occur: the keys of by_type_counts and of examples
SeenTypes(entries) == {classify_url(entries[i].loc) : i \in 1..Len(entries)}

\* sitemap_scraper.py 117-123: by_type_counts
by_type_counts(entries) ==
    [t \in SeenTypes(entries) |-> Len(OfType(entries, t))]

\* sitemap_scraper.py 125-128: a loc is appended while the list of its type
\* is shorter than the cap
example_urls(entries, max_examples_per_type) ==
    [t \in SeenTypes(entries) |->
        LET locs == [i \in 1..Len(OfType(entries, t)) |-> OfType(entries, t)[i].loc]
        IN  SubSeq(locs, 1, Min(Len(locs), Max(max_examples_per_type, 0)))]

\* ------------------------------------------------------------ tech stack

\* the needles looked for in the homepage; a homepage is the set it contains
Needles == {"klaviyo", "fbq('init'"}

Homepages == SUBSET Needles

HtmlResp(kind, status, html) == [kind |-> kind, status |-> status, html |-> html]

HomepageResponses ==
    {HtmlResp("transport", 0, {})}
    \cup {HtmlResp("http", s, {}) : s \in {403, 500}}
    \cup {HtmlResp("http", OkStatus, h) : h \in Homepages}

HomepageError(status) ==
    Exc("ShopifyScraperError", "Failed to fetch homepage HTML (status {status})", NoUrl, status)

\* tech_stack.detect_tech_stack: always the three keys
detect_tech_stack(html) ==
    [apps_detected |-> IF "klaviyo" \in html THEN {"Klaviyo"} ELSE {},
     pixels |-> IF "fbq('init'" \in html THEN {"Facebook Pixel"} ELSE {},
     theme_hint |-> Null]

\* reporting.py 302-304, what becomes of the snapshot: written, open()
\* raises (no file), or f.write raises (the file exists, truncated)
SnapshotOutcomes == {"written", "open_failed", "write_failed"}

SnapshotError == Exc("OSError", "cannot write homepage.html", NoUrl, 0)

\* ------------------------------------------------------------ the aggregator

\* the stages of generate_store_report in the order of its statements
Pipeline == <<"fetch_products", "analyze", "cluster", "collections",
              "sitemap", "tech", "persist", "done">>

StageIndex(stage) == CHOOSE i \in 1..Len(Pipeline) : Pipeline[i] = stage

\* mutant of NextStage: the sitemap block moved before the collections block
NextStage_Swapped(stage) ==
    CASE stage = "cluster" -> "sitemap"
      [] stage = "sitemap" -> "collections"
      [] stage = "collections" -> "tech"
      [] OTHER -> Pipeline[StageIndex(stage) + 1]

\* the statement that follows a stage
NextStage(stage) == Pipeline[StageIndex(stage) + 1]

\* mutant of Caught: the try blocks without their `except Exception`
Caught_TypedOnly(e, typed) == IsInstance(e, typed)

\* try: ... except <typed>: ... except Exception: ...  -- is e handled here
Caught(e, typed) == IsInstance(e, typed) \/ IsInstance(e, "Exception")

\* the value both handlers of a soft source store under its key
FailureValue == EmptyDict

\* mutant of PageStep: no check for an empty result after the loop
PageStep_ReturnsEmpty(src, url, resp, acc0) ==
    LET batch == Batch(src, url.page, resp.n)
        acc == Extend(acc0, batch)
    IN  IF resp.kind = "transport"
        THEN [state |-> "raised", error |-> TransportError(url), items |-> acc0]
        ELSE IF IsBadStatus(resp.status)
        THEN [state |-> "raised", error |-> StatusError(src, url, resp.status),
              items |-> acc0]
        ELSE IF LoopContinues(batch, Limit)
        THEN [state |-> "running", error |-> NoError, items |-> acc]
        ELSE [state |-> "returned", error |-> NoError, items |-> acc]

\* one iteration of the loop of fetch_products / fetch_collections, with the
\* code after the loop when the iteration leaves it: the accumulator, and
\* whether the function goes on ("running"), returned or raised
PageStep(src, url, resp, acc0) ==
    LET batch == Batch(src, url.page, resp.n)
        acc == Extend(acc0, batch)
    IN  IF resp.kind = "transport"
        THEN [state |-> "raised", error |-> TransportError(url), items |-> acc0]
        ELSE IF IsBadStatus(resp.status)
        THEN [state |-> "raised", error |-> StatusError(src, url, resp.status),
              items |-> acc0]
        ELSE IF LoopContinues(batch, Limit)
        THEN [state |-> "running", error |-> NoError, items |-> acc]
        ELSE IF acc = << >>
        THEN [state |-> "raised", error |-> EmptyResultError(src), items |-> acc]
        ELSE [state |-> "returned", error |-> NoError, items |-> acc]

\* the artifacts step 4-6 of generate_store_report writes, in order
Artifacts(prof, cdf) ==
    <<"products.parquet", "products_summary.csv">>
    \o (IF cdf # NoTable
        THEN <<"collections.parquet">>
             \o (IF cdf.cols \cap {"id", "title", "handle", "products_count"} # {}
                 THEN <<"collections_summary.csv">> ELSE << >>)
        ELSE << >>)
    \o <<"profile.json", "figures/product_types.png">>
    \o (IF DictGet(DictGet(prof, "clustering", EmptyDict), "clusters", << >>) # << >>
        THEN <<"figures/cluster_sizes.png">> ELSE << >>)
    \o <<"report.md">>

VARIABLES
    pc,             \* where generate_store_report stands
    page,           \* fetch_products / fetch_collections: page
    items,          \* fetch_products / fetch_collections: the accumulator
    df_products,    \* the product table (NoTable before the fetch returned)
    collections_df, \* the collections table (NoTable is None)
    sm_root,        \* fetch_sitemap_urls: the index walked, or NoDoc
    sm_next,        \* _parse_sitemapindex: position of the next child
    sm_urls,        \* fetch_sitemap_urls: the entries collected
    profile,        \* the profile dict
    error,          \* the exception generate_store_report raised, or NoError
    returned,       \* TRUE once generate_store_report returned the profile
    exit_code,      \* profile_store.main: -1 while running
    call,           \* the latest call of a source function and how it ended
    failed,         \* the source functions whose call raised in this run
    requests,       \* the requests of that call, in order, with their answers
    order,          \* the stages entered, in order
    files,          \* the files written under the store's directory, in order
    fn              \* a function called on its own: its arguments and result

vars == <<pc, page, items, df_products, collections_df, sm_root, sm_next,
          sm_urls, profile, error, returned, exit_code, call, failed, requests,
          order, files, fn>>

Call(source, state, e) == [source |-> source, state |-> state, error |-> e]

LogEntry(url, kind, status, n, tag) ==
    [url |-> url, kind |-> kind, status |-> status, n |-> n, tag |-> tag]

\* a call of one function: its name, its arguments, and its result once it
\* was applied
FnCall(op, arg) == [op |-> op, arg |-> arg, done |-> FALSE, out |-> << >>]

\* no function is called on its own during a run of the pipeline
NoCall == FnCall("", << >>)

\* the state of a run when generate_store_report is entered
InitRun ==
    /\ pc = "start"
    /\ page = 1
    /\ items = << >>
    /\ df_products = NoTable
    /\ collections_df = NoTable
    /\ sm_root = NoDoc
    /\ sm_next = 1
    /\ sm_urls = << >>
    /\ profile = EmptyDict
    /\ error = NoError
    /\ returned = FALSE
    /\ exit_code = -1
    /\ call = Call("", "none", NoError)
    /\ failed = {}
    /\ requests = << >>
    /\ order = << >>
    /\ files = << >>

Init ==
    /\ InitRun
    /\ fn = NoCall

\* the call of a source function goes on, returned or raised
SetCall(source, state, e) ==
    /\ call' = Call(source, state, e)
    /\ failed' = IF state = "raised" THEN failed \cup {source} ELSE failed

\* the call of a source function ended: it raised e, or returned (NoError)
EndCall(source, e) ==
    SetCall(source, IF e = NoError THEN "returned" ELSE "raised", e)

\* control passes to a stage
Goto(stage) ==
    /\ pc' = stage
    /\ order' = Append(order, stage)

\* an exception leaves generate_store_report
Raise(e) ==
    /\ pc' = "raised"
    /\ error' = e
    /\ UNCHANGED order

\* requests.get(url, timeout=...) answered; `first` for the first request of a call
Request(first, entry) ==
    requests' = IF first THEN <<entry>> ELSE Append(requests, entry)

\* mutant of HardFail: the product fetch wrapped like a soft source
HardFail_Swallowed(e) ==
    /\ Goto(NextStage(pc))
    /\ UNCHANGED error

\* fetch_products stands outside every try block (reporting.py 254)
HardFail(e) == Raise(e)

\* mutant of SoftFail: a handler that passes without storing the empty value
SoftFail_Pass(key, typed, e) ==
    /\ Goto(NextStage(pc))
    /\ UNCHANGED <<error, profile>>

\* the exception e reaches the try block of the soft source stored under key
SoftFail(key, typed, e) ==
    IF Caught(e, typed)
    THEN /\ profile' = DictSet(profile, key, FailureValue)
         /\ Goto(NextStage(pc))
         /\ UNCHANGED error
    ELSE /\ Raise(e)
         /\ UNCHANGED profile

\* the soft source stored under key returned val
SoftOk(key, val) ==
    /\ profile' = DictSet(profile, key, val)
    /\ Goto(NextStage(pc))
    /\ UNCHANGED error

\* reporting.py 249-251: normalize the URL, make the directories
Start ==
    /\ pc = "start"
    /\ UNCHANGED fn
    /\ Goto("fetch_products")
    /\ UNCHANGED <<page, items, df_products, collections_df, sm_root, sm_next,
                   sm_urls, profile, error, returned, exit_code, call,
                   failed, requests, files>>

\* one request of fetch_products, with the code after the loop when the
\* loop ends with products: the content of the products served decides
\* whether that code raises; an exception propagates to the caller of
\* generate_store_report (reporting.py 254)
FetchProductsPage ==
    /\ pc = "fetch_products"
    /\ UNCHANGED fn
    /\ \E resp \in PageResponses(page), content \in ContentErrors :
        LET url == ProductsUrl(page)
            step == PageStep("products", url, resp, items)
            r == IF step.state = "returned" /\ content # NoError
                 THEN [state |-> "raised", error |-> content, items |-> step.items]
                 ELSE step
        IN  /\ Request(page = 1, LogEntry(url, resp.kind, resp.status, resp.n, << >>))
            /\ SetCall("products", r.state, r.error)
            /\ items' = r.items
            /\ IF r.state = "running"
               THEN /\ page' = page + 1
                    /\ UNCHANGED <<pc, order, error, df_products>>
               ELSE IF r.state = "raised"
               THEN /\ HardFail(r.error)
                    /\ UNCHANGED <<page, df_products>>
               ELSE /\ df_products' = ProductsTable(r.items)
                    /\ Goto(NextStage(pc))
                    /\ UNCHANGED <<page, error>>
    /\ UNCHANGED <<collections_df, sm_root, sm_next, sm_urls, profile,
                   returned, exit_code, files>>

\* reporting.py 257-259
Analyze ==
    /\ pc = "analyze"
    /\ UNCHANGED fn
    /\ profile' = DictSet(DictSet(analyze_products(df_products),
                                  "store_url", "https://store"),
                          "store_slug", "store")
    /\ Goto(NextStage(pc))
    /\ UNCHANGED <<page, items, df_products, collections_df, sm_root, sm_next,
                   sm_urls, error, returned, exit_code, call, failed, requests,
                   files>>

\* reporting.py 262-268
Cluster ==
    /\ pc = "cluster"
    /\ UNCHANGED fn
    /\ \E env \in ClusterEnvs :
        LET e == ClusterError(df_products, env)
        IN  /\ EndCall("clustering", e)
            /\ IF e = NoError
               THEN /\ df_products' = WithClusterColumn(df_products)
                    /\ SoftOk("clustering", ClusterSummary(df_products))
               ELSE /\ SoftFail("clustering", "ProductClusteringError", e)
                    /\ UNCHANGED df_products
    \* fetch_collections starts: collections = [], page = 1
    /\ page' = 1
    /\ items' = << >>
    /\ UNCHANGED <<collections_df, sm_root, sm_next, sm_urls, returned,
                   exit_code, requests, files>>

\* one request of fetch_collections, with summarize_collections when the
\* fetch returns (reporting.py 274-283): collections_df is assigned as soon
\* as fetch_collections returns, and the content of the collections served
\* decides whether summarize_collections raises after that
FetchCollectionsPage ==
    /\ pc = "collections"
    /\ UNCHANGED fn
    /\ \E resp \in PageResponses(page), content \in SummaryErrors :
        LET url == CollectionsUrl(page)
            step == PageStep("collections", url, resp, items)
            r == IF step.state = "returned" /\ content # NoError
                 THEN [state |-> "raised", error |-> content, items |-> step.items]
                 ELSE step
        IN  /\ Request(page = 1, LogEntry(url, resp.kind, resp.status, resp.n, << >>))
            /\ SetCall("collections", r.state, r.error)
            /\ items' = r.items
            /\ IF r.state = "running"
               THEN /\ page' = page + 1
                    /\ UNCHANGED <<pc, order, error, profile, collections_df>>
               ELSE IF r.state = "raised"
               THEN /\ SoftFail("collections", "ShopifyScraperError", r.error)
                    /\ collections_df' = IF step.state = "returned"
                                         THEN CollectionsTable(r.items)
                                         ELSE collections_df
                    /\ UNCHANGED page
               ELSE /\ collections_df' = CollectionsTable(r.items)
                    /\ SoftOk("collections",
                              summarize_collections(CollectionsTable(r.items)))
                    /\ UNCHANGED page
    /\ UNCHANGED <<df_products, sm_root, sm_next, sm_urls, returned,
                   exit_code, files>>

\* fetch_sitemap_urls up to its first child request, with summarize_sitemap
\* when it returns here (reporting.py 286-293)
FetchSitemapRoot ==
    /\ pc = "sitemap"
    /\ UNCHANGED fn
    /\ sm_root = NoDoc
    /\ \E resp \in XmlResponses(0) :
        LET root == fetch_xml(resp)
            first == NextChild(root.sitemaps, 1)
            n == IF resp.kind = "http" /\ root # NoDoc /\ IsUrlsetTag(root.tag)
                 THEN Len(parse_urlset(root)) ELSE 0
            e == IF resp.kind = "transport" THEN TransportError(SitemapUrl)
                 ELSE IF root = NoDoc THEN SitemapUnavailable
                 ELSE IF IsUrlsetTag(root.tag) THEN NoError
                 ELSE IF IsIndexTag(root.tag)
                 THEN (IF first > Len(root.sitemaps) THEN IndexResult(<< >>)
                       ELSE NoError)
                 ELSE SitemapUnsupported
            walking == e = NoError /\ ~IsUrlsetTag(root.tag)
        IN  /\ Request(TRUE, LogEntry(SitemapUrl, resp.kind, resp.status, n,
                                      IF resp.kind = "http" THEN root.tag ELSE << >>))
            /\ IF walking
               THEN /\ SetCall("sitemap", "running", NoError)
                    /\ sm_root' = root
                    /\ sm_next' = first
                    /\ sm_urls' = << >>
                    /\ UNCHANGED <<pc, order, error, profile>>
               ELSE /\ EndCall("sitemap", e)
                    /\ sm_urls' = IF e = NoError THEN parse_urlset(root) ELSE << >>
                    /\ UNCHANGED <<sm_root, sm_next>>
                    /\ IF e = NoError
                       THEN SoftOk("sitemap", summarize_sitemap(parse_urlset(root)))
                       ELSE SoftFail("sitemap", "ShopifyScraperError", e)
    /\ UNCHANGED <<page, items, df_products, collections_df, returned,
                   exit_code, files>>

\* one iteration of the loop of _parse_sitemapindex for a child with a <loc>;
\* after the last one fetch_sitemap_urls ends and summarize_sitemap runs
FetchSitemapChild ==
    /\ pc = "sitemap"
    /\ UNCHANGED fn
    /\ sm_root # NoDoc
    /\ \E resp \in XmlResponses(sm_next) :
        LET child_root == fetch_xml(resp)
            urls == sm_urls \o ChildUrls(child_root)
            nxt == NextChild(sm_root.sitemaps, sm_next + 1)
            last == nxt > Len(sm_root.sitemaps)
            e == IF resp.kind = "transport" THEN TransportError(ChildUrl(sm_next))
                 ELSE IF last THEN IndexResult(urls)
                 ELSE NoError
        IN  /\ Request(FALSE, LogEntry(ChildUrl(sm_next), resp.kind, resp.status,
                                       IF resp.kind = "http"
                                       THEN Len(ChildUrls(child_root)) ELSE 0,
                                       IF resp.kind = "http"
                                       THEN child_root.tag ELSE << >>))
            /\ IF resp.kind = "http" /\ ~last
               THEN /\ SetCall("sitemap", "running", NoError)
                    /\ sm_next' = nxt
                    /\ sm_urls' = urls
                    /\ UNCHANGED <<pc, order, error, profile, sm_root>>
               ELSE /\ EndCall("sitemap", e)
                    \* the index walked stays on record after the call
                    /\ UNCHANGED sm_root
                    /\ sm_next' = 1
                    /\ sm_urls' = IF resp.kind = "http" THEN urls ELSE sm_urls
                    /\ IF e = NoError
                       THEN SoftOk("sitemap", summarize_sitemap(urls))
                       ELSE SoftFail("sitemap", "ShopifyScraperError", e)
    /\ UNCHANGED <<page, items, df_products, collections_df, returned,
                   exit_code, files>>

\* reporting.py 296-308: fetch the homepage, fingerprint it, save the
\* snapshot; the snapshot is written inside the try block, after
\* profile["tech_stack"] was assigned, so the handlers also see its failure
TechStack ==
    /\ pc = "tech"
    /\ UNCHANGED fn
    /\ \E resp \in HomepageResponses, snapshot \in SnapshotOutcomes :
        LET e == IF resp.kind = "transport" THEN TransportError(HomepageUrl)
                 ELSE IF IsBadStatus(resp.status) THEN HomepageError(resp.status)
                 ELSE NoError
        IN  /\ Request(TRUE, LogEntry(HomepageUrl, resp.kind, resp.status, 0, << >>))
            /\ EndCall("tech", e)
            /\ IF e # NoError
               THEN /\ SoftFail("tech_stack", "ShopifyScraperError", e)
                    /\ UNCHANGED files
               ELSE IF snapshot # "written"
               THEN /\ SoftFail("tech_stack", "ShopifyScraperError", SnapshotError)
                    /\ files' = IF snapshot = "write_failed"
                                THEN Append(files, "homepage.html") ELSE files
               ELSE /\ SoftOk("tech_stack", detect_tech_stack(resp.html))
                    /\ files' = Append(files, "homepage.html")
    /\ UNCHANGED <<page, items, df_products, collections_df, sm_root, sm_next,
                   sm_urls, returned, exit_code>>

\* reporting.py 311-357: write the artifacts and return the profile
SaveArtifacts ==
    /\ pc = "persist"
    /\ UNCHANGED fn
    /\ files' = files \o Artifacts(profile, collections_df)
    /\ returned' = TRUE
    /\ Goto(NextStage(pc))
    /\ UNCHANGED <<page, items, df_products, collections_df, sm_root, sm_next,
                   sm_urls, profile, error, exit_code, call, failed, requests>>

\* profile_store.main 18-22: report the error and exit 1
MainFails ==
    /\ pc = "raised"
    /\ UNCHANGED fn
    /\ exit_code = -1
    /\ exit_code' = 1
    /\ UNCHANGED <<pc, page, items, df_products, collections_df, sm_root,
                   sm_next, sm_urls, profile, error, returned, call, failed,
                   requests, order, files>>

\* profile_store.main 24-33: print the short summary
MainPrints ==
    /\ pc = "done"
    /\ UNCHANGED fn
    /\ exit_code = -1
    /\ exit_code' = 0
    /\ UNCHANGED <<pc, page, items, df_products, collections_df, sm_root,
                   sm_next, sm_urls, profile, error, returned, call, failed,
                   requests, order, files>>

Next ==
    \/ Start
    \/ FetchProductsPage
    \/ Analyze
    \/ Cluster
    \/ FetchCollectionsPage
    \/ FetchSitemapRoot
    \/ FetchSitemapChild
    \/ TechStack
    \/ SaveArtifacts
    \/ MainFails
    \/ MainPrints

Spec == Init /\ [][Next]_vars

\* ------------------------------------------------- functions called on their own

\* the variables of a run of the pipeline
run_vars == <<pc, page, items, df_products, collections_df, sm_root, sm_next,
              sm_urls, profile, error, returned, exit_code, call, failed,
              requests, order, files>>

\* the function fn names is applied to its arguments
Returns(out) == fn' = [fn EXCEPT !.done = TRUE, !.out = out]

Pending(op) == fn.op = op /\ ~fn.done

\* cluster_products(df, n_clusters) on a table of n_docs rows
ClusterCalls ==
    {FnCall("cluster_products", [n_docs |-> n, n_clusters |-> k]) :
        n \in 0..MaxDocs,
        k \in {None} \cup {Some(v) : v \in 1..MaxExplicitK}}

ApplyClusterProducts ==
    /\ Pending("cluster_products")
    /\ \E env \in ClusterEnvs :
        Returns(cluster_products(TableOfRows(fn.arg.n_docs), fn.arg.n_clusters, env))
    /\ UNCHANGED run_vars

\* the store references a user may type: leading blanks, a scheme or none, a
\* host, then nothing, a slash, a path, a query, or a blank before the path
UrlSchemes == {<< >>, HttpPrefix, HttpsPrefix}

UrlHosts == {<<"example.com">>, <<"shop.io">>}

UrlTails == {<< >>, <<"/">>, <<"/", "some", "/", "path">>, <<"?", "q">>,
             <<" ", "/", "x">>}

StoreRef(lead, scheme, host, tail) ==
    [scheme |-> scheme, host |-> host, tail |-> tail,
     text |-> lead \o scheme \o host \o tail]

StoreRefs ==
    {StoreRef(l, sc, h, t) :
        l \in {<< >>, <<" ">>}, sc \in UrlSchemes, h \in UrlHosts, t \in UrlTails}

\* normalize_store_url on two store references
NormalizeCalls ==
    {FnCall("normalize_store_url", [a |-> a, b |-> b]) : a, b \in StoreRefs}

ApplyNormalizeStoreUrl ==
    /\ Pending("normalize_store_url")
    /\ Returns([a |-> normalize_store_url(fn.arg.a.text),
                b |-> normalize_store_url(fn.arg.b.text),
                again |-> normalize_store_url(normalize_store_url(fn.arg.a.text))])
    /\ UNCHANGED run_vars

\* the names a path segment of a sitemap URL may have
SegmentNames == {"products", "collections", "blogs", "pages", "Products", "foo"}

\* "/" before every segment, and a trailing "/" or none
RECURSIVE JoinSegments(_)
JoinSegments(segs) ==
    IF segs = << >> THEN << >>
    ELSE <<"/", Head(segs)>> \o JoinSegments(Tail(segs))

\* the URL of a sitemap entry: its path segments, whether the path ends with
\* a slash, and its query
PageUrl(segs, slash, query) ==
    [segs |-> segs, slash |-> slash,
     text |-> HttpsPrefix \o <<"x.com">> \o JoinSegments(segs)
              \o (IF slash THEN <<"/">> ELSE << >>) \o query]

PageUrls ==
    {PageUrl(segs, slash, q) :
        segs \in SeqUpTo(SegmentNames, MaxSegments), slash \in BOOLEAN,
        q \in {<< >>, <<"?", "next", "=", "/", "products", "/">>}}

ClassifyCalls == {FnCall("classify_url", u) : u \in PageUrls}

ApplyClassifyUrl ==
    /\ Pending("classify_url")
    /\ Returns(classify_url(fn.arg.text))
    /\ UNCHANGED run_vars

\* the texts of one tag, or of one piece between commas
TagTexts == {<< >>, <<"Red">>, <<" ", "Red", " ">>, <<" ", "b">>, <<" ">>,
             <<"a", " ", "c">>}

\* ",".join(pieces)
RECURSIVE Join(_)
Join(pieces) ==
    IF Len(pieces) = 1 THEN pieces[1]
    ELSE pieces[1] \o <<",">> \o Join(Tail(pieces))

\* normalize_tags on one value: null, a list of tags, or the tags joined by
\* commas into one string
TagCalls ==
    {FnCall("normalize_tags", [value |-> TagsNull, pieces |-> << >>])}
    \cup {FnCall("normalize_tags", [value |-> TagsList(ts), pieces |-> ts]) :
             ts \in SeqUpTo(TagTexts, MaxTags)}
    \cup {FnCall("normalize_tags", [value |-> TagsText(Join(ts)), pieces |-> ts]) :
             ts \in SeqUpTo(TagTexts, MaxTags) \ {<< >>}}

ApplyNormalizeTags ==
    /\ Pending("normalize_tags")
    /\ Returns(normalize_tags(fn.arg.value))
    /\ UNCHANGED run_vars

\* the raw products /products.json may serve
RawTags == {TagsMissing, TagsNull,
            TagsList(<<<<"Red">>, <<" ", "Red", " ">>, << >>>>)}

RawVariants == {VariantsMissing, VariantsList(<< >>), VariantsList(<<"7", "abc">>),
                VariantsList(<<Null>>), VariantsList(<<"abc">>)}

RawProducts ==
    {RawProduct(t, v, ty) : t \in RawTags, v \in RawVariants, ty \in BOOLEAN}

\* the code of fetch_products after its loop, on the products accumulated
ProductCalls ==
    {FnCall("normalize_products", ps) :
        ps \in SeqUpTo(RawProducts, MaxRows) \ {<< >>}}

ApplyNormalizeProducts ==
    /\ Pending("normalize_products")
    /\ Returns(normalize_products(fn.arg))
    /\ UNCHANGED run_vars

\* the code of fetch_collections after its loop, then summarize_collections
CollectionCalls ==
    {FnCall("summarize_collections", cs) :
        cs \in SeqUpTo(RawCollections, MaxCollections) \ {<< >>}}

ApplySummarizeCollections ==
    /\ Pending("summarize_collections")
    /\ LET df == CollectionsTable(fn.arg)
           e == SummarizeError(df)
       IN  Returns([table |-> df,
                    summary |-> IF e = NoError THEN summarize_collections(df)
                                ELSE NoSummary,
                    error |-> e])
    /\ UNCHANGED run_vars

\* the entries a sitemap may hold: three URLs, each without a lastmod or
\* with an empty or a non-empty one
EntryLocs ==
    {PageUrl(<<"products", "a">>, FALSE, << >>).text,
     PageUrl(<<"products", "b">>, FALSE, << >>).text,
     PageUrl(<<"pages", "c">>, FALSE, << >>).text}

EntryLastmods == {NoLastmod, Lastmod(<< >>), Lastmod(<<2, 4>>), Lastmod(<<9>>)}

SitemapEntries == {SitemapEntry(l, m) : l \in EntryLocs, m \in EntryLastmods}

\* summarize_sitemap(urls_with_lastmod, max_examples_per_type)
SummarizeCalls ==
    {FnCall("summarize_sitemap", [entries |-> es, cap |-> n]) :
        es \in SeqUpTo(SitemapEntries, MaxEntries), n \in 0..MaxExamples}

ApplySummarizeSitemap ==
    /\ Pending("summarize_sitemap")
    /\ Returns([total_urls |-> summarize_sitemap(fn.arg.entries).total_urls,
                by_type |-> by_type_counts(fn.arg.entries),
                latest_lastmod |-> latest_lastmod(fn.arg.entries),
                example_urls |-> example_urls(fn.arg.entries, fn.arg.cap)])
    /\ UNCHANGED run_vars

FnCalls ==
    ClusterCalls \cup NormalizeCalls \cup ClassifyCalls \cup TagCalls
    \cup ProductCalls \cup CollectionCalls \cup SummarizeCalls

FnInit ==
    /\ InitRun
    /\ fn \in FnCalls

FnNext ==
    \/ ApplyClusterProducts
    \/ ApplyNormalizeStoreUrl
    \/ ApplyClassifyUrl
    \/ ApplyNormalizeTags
    \/ ApplyNormalizeProducts
    \/ ApplySummarizeCollections
    \/ ApplySummarizeSitemap

FnSpec == FnInit /\ [][FnNext]_vars


\* ------------------------------------------------------------------ claims

\* the soft sources and the profile key each one fills
SoftSources == {"clustering", "collections", "sitemap", "tech"}

SourceKey(source) == IF source = "tech" THEN "tech_stack" ELSE source

\* the stages that follow the product fetch
LaterStages == {"analyze", "cluster", "collections", "sitemap", "tech",
                "persist", "done"}

\* C1: when fetch_products raises, generate_store_report raises that same
\* error: no profile is returned, no later stage is entered (analysis,
\* clustering, collections, sitemap, homepage, persistence), no request goes
\* to another endpoint and no artifact is written.
C1_ProductFailureAbortsRun ==
    (call.source = "products" /\ call.state = "raised") =>
        /\ pc = "raised"
        /\ error = call.error
        /\ error # NoError
        /\ ~returned
        /\ IsEmptyDict(profile)
        /\ \A i \in 1..Len(order) : order[i] \notin LaterStages
        /\ \A i \in 1..Len(requests) : requests[i].url.path = "/products.json"
        /\ df_products = NoTable
        /\ collections_df = NoTable
        /\ files = << >>
        /\ exit_code \in {-1, 1}

\* the product fetch raised and main reported the error
C1_Witness ==
    /\ call.source = "products"
    /\ call.state = "raised"
    /\ pc = "raised"
    /\ exit_code = 1

C3_KeysAlwaysPresent ==
    returned =>
        /\ HasKey(profile, "n_products")
        /\ \A source \in SoftSources :
            /\ HasKey(profile, SourceKey(source))
            /\ source \in failed => IsEmptyDict(profile[SourceKey(source)])

\* products fetched, the collections call raised, the profile was returned
\* with an empty collections key
C3_Witness ==
    /\ returned
    /\ "collections" \in failed
    /\ HasKey(profile, "collections")
    /\ IsEmptyDict(profile["collections"])
    /\ profile["n_products"] >= 1

\* the paginated sources, their URLs, stages and tables
PagedSources == {"products", "collections"}

PagedUrl(src, pg) == IF src = "products" THEN ProductsUrl(pg) ELSE CollectionsUrl(pg)

PagedStage(src) == IF src = "products" THEN "fetch_products" ELSE "collections"

PagedTable(src) == IF src = "products" THEN df_products ELSE collections_df

LastRequest == requests[Len(requests)]

\* every request of the log was answered with the status the fetchers accept
AllAccepted == \A i \in 1..Len(requests) :
                   requests[i].kind = "http" /\ requests[i].status = OkStatus

\* the items the store served on the pages of the log from the i-th on
RECURSIVE ServedFrom(_, _)
ServedFrom(src, i) ==
    IF i > Len(requests) THEN << >>
    ELSE Batch(src, requests[i].url.page, requests[i].n) \o ServedFrom(src, i + 1)

\* C4: in a paginated fetch with page size Limit whose responses all had the
\* accepted status, the requests went to page 1, 2, 3, ... in order; every
\* page before the last requested one was full; after a full page the fetch
\* goes on to request the next page; after a page with zero or fewer than
\* Limit items it has stopped, the number of requests being that page's
\* index; the accumulated items, and the rows of the table returned, are the
\* served pages concatenated in order.
C4_Pagination ==
    \A src \in PagedSources :
        (call.source = src /\ AllAccepted) =>
            LET n == Len(requests)
            IN  /\ n >= 1
                /\ \A i \in 1..n : requests[i].url = PagedUrl(src, i)
                /\ \A i \in 1..(n - 1) : requests[i].n = Limit
                /\ requests[n].n = Limit =>
                       /\ call.state = "running"
                       /\ pc = PagedStage(src)
                       /\ page = n + 1
                /\ requests[n].n < Limit =>
                       /\ call.state # "running"
                       /\ pc # PagedStage(src)
                       /\ page = n
                /\ items = ServedFrom(src, 1)
                /\ call.state = "returned" =>
                       /\ PagedTable(src).rows = ServedFrom(src, 1)
                       /\ Len(PagedTable(src).rows) = (n - 1) * Limit + requests[n].n

\* two full pages and a partial one: three requests, 2 * Limit + 1 items
C4_Witness ==
    /\ call.source = "products"
    /\ call.state = "returned"
    /\ AllAccepted
    /\ Len(requests) = 3
    /\ requests[3].n = 1
    /\ requests[3].n < Limit
    /\ Len(df_products.rows) = 2 * Limit + 1

\* a status outside 200..299
Non2xx(status) == status \div 100 # 2

\* what C5 and its amendment share: a non-2xx answer is the last request of
\* the fetch, the fetch raised a ShopifyScraperError, returned no table and
\* its stage is over
AbortsFetch(src, i) ==
    /\ i = Len(requests)
    /\ call.state = "raised"
    /\ call.error.type = "ShopifyScraperError"
    /\ PagedTable(src) = NoTable
    /\ pc # PagedStage(src)

\* C5 as stated: any non-2xx response on any page aborts the fetch with a
\* ScrapeError that carries the failing URL and the status code; nothing
\* accumulated is returned and no further page is requested.
C5_AbortCarriesUrlAndStatus ==
    \A src \in PagedSources :
        call.source = src =>
            \A i \in 1..Len(requests) :
                (requests[i].kind = "http" /\ Non2xx(requests[i].status)) =>
                    /\ AbortsFetch(src, i)
                    /\ call.error.url = requests[i].url
                    /\ call.error.status = requests[i].status

\* the collections statuses whose message is a fixed text
RefinedStatuses == {401, 403, 404}

\* C5 amended: any non-2xx response on any page aborts the fetch with a
\* ScrapeError, nothing accumulated is returned and no further page is
\* requested; the error carries the failing URL and the status code for the
\* products endpoint and for every collections status other than 401, 403
\* and 404; the collections error for 404 names the status without the URL
\* and the one for 401 and 403 names neither.
C5_AbortAmended ==
    \A src \in PagedSources :
        call.source = src =>
            \A i \in 1..Len(requests) :
                (requests[i].kind = "http" /\ Non2xx(requests[i].status)) =>
                    /\ AbortsFetch(src, i)
                    /\ IF src = "collections" /\ requests[i].status \in RefinedStatuses
                       THEN /\ call.error.url = NoUrl
                            /\ call.error.status =
                                   (IF requests[i].status = 404 THEN 404 ELSE 0)
                       ELSE /\ call.error.url = requests[i].url
                            /\ call.error.status = requests[i].status

\* a later page of the products endpoint answered 500 after a full page
C5_Witness ==
    /\ call.source = "products"
    /\ call.state = "raised"
    /\ Len(requests) = 2
    /\ requests[1].n = Limit
    /\ requests[2].status = 500
    /\ call.error.url = ProductsUrl(2)
    /\ call.error.status = 500
    /\ items # << >>
    /\ df_products = NoTable

\* C6: a paginated fetch that ends with nothing accumulated although every
\* response had status 200 (the first page held zero items) raises a
\* ShopifyScraperError and returns no table; its message differs from the
\* message for a 404 answer; this holds for products and for collections.
C6_EmptyResultRaises ==
    \A src \in PagedSources :
        (call.source = src /\ call.state # "running" /\ AllAccepted
         /\ items = << >>) =>
            /\ Len(requests) = 1
            /\ requests[1].n = 0
            /\ call.state = "raised"
            /\ call.error.type = "ShopifyScraperError"
            /\ call.error.text # StatusError(src, PagedUrl(src, 1), 404).text
            /\ PagedTable(src) = NoTable
            /\ src = "products" => (pc = "raised" /\ error = call.error)
            /\ src = "collections" => IsEmptyDict(profile["collections"])

\* the collections endpoint answered 200 with an empty array
C6_Witness ==
    /\ call.source = "collections"
    /\ call.state = "raised"
    /\ Len(requests) = 1
    /\ LastRequest.kind = "http"
    /\ LastRequest.status = 200
    /\ LastRequest.n = 0

\* the three kinds of message a bad status gives
MessageKind(e) ==
    IF e.text = "collections.json not available (404)" THEN "not available"
    ELSE IF e.text = "collections.json is not publicly accessible"
    THEN "not publicly accessible"
    ELSE IF e.text = "Failed fetching {url} (status {status})" THEN "generic"
    ELSE "other"

ExpectedKind(status) ==
    IF status = 404 THEN "not available"
    ELSE IF status \in {401, 403} THEN "not publicly accessible"
    ELSE "generic"

\* a fetch of src ended on a bad status
RaisedOnStatus(src) ==
    /\ call.source = src
    /\ call.state = "raised"
    /\ LastRequest.kind = "http"
    /\ LastRequest.status # OkStatus

\* C7 as stated: for the product and the collection source alike, 404 gives
\* the "not available" error, 401 and 403 the "not publicly accessible"
\* error, any other bad status the generic failure with the status code.
C7_RefinedForBothSources ==
    \A src \in PagedSources :
        RaisedOnStatus(src) =>
            /\ call.error.type = "ShopifyScraperError"
            /\ MessageKind(call.error) = ExpectedKind(LastRequest.status)
            /\ MessageKind(call.error) = "generic" =>
                   call.error.status = LastRequest.status

\* C7 amended: the collection source refines its ScrapeError by status (404
\* "not available", 401 and 403 "not publicly accessible", any other bad
\* status the generic failure with the status code), and errors of different
\* kinds differ; the product source gives the generic failure with the URL
\* and the status code for every bad status, 404, 401 and 403 included.
C7_RefinedForCollectionsOnly ==
    /\ RaisedOnStatus("collections") =>
           /\ call.error.type = "ShopifyScraperError"
           /\ MessageKind(call.error) = ExpectedKind(LastRequest.status)
           /\ MessageKind(call.error) = "generic" =>
                  call.error.status = LastRequest.status
    /\ RaisedOnStatus("products") =>
           /\ call.error.type = "ShopifyScraperError"
           /\ MessageKind(call.error) = "generic"
           /\ call.error.status = LastRequest.status
           /\ call.error.url = LastRequest.url
    /\ \A s1, s2 \in Statuses \ {OkStatus} :
           ExpectedKind(s1) # ExpectedKind(s2) =>
               CollectionsStatusError(CollectionsUrl(1), s1)
                   # CollectionsStatusError(CollectionsUrl(1), s2)

\* the collections endpoint answered 401
C7_Witness ==
    /\ RaisedOnStatus("collections")
    /\ LastRequest.status = 401
    /\ MessageKind(call.error) = "not publicly accessible"

\* the stage in which a source function is called
SourceStage(source) ==
    CASE source = "products" -> "fetch_products"
      [] source = "clustering" -> "cluster"
      [] source = "collections" -> "collections"
      [] source = "sitemap" -> "sitemap"
      [] source = "tech" -> "tech"

\* C8: the stages of a run are entered in the fixed order product fetch,
\* analysis, clustering, collections, sitemap, tech fingerprint, persistence,
\* each at most once and all of them in a run that returns; the run stands in
\* the stage entered last, a call still in progress is the call of that
\* stage, and the profile and the tables are written only in the last stage.
C8_FixedSequentialOrder ==
    /\ Len(order) <= Len(Pipeline)
    /\ \A i \in 1..Len(order) : order[i] = Pipeline[i]
    /\ pc = "start" => order = << >>
    /\ pc \notin {"start", "raised"} => (order # << >> /\ pc = order[Len(order)])
    /\ pc = "done" => order = Pipeline
    /\ call.state = "running" => pc = SourceStage(call.source)
    /\ call.state \in {"returned", "raised"} /\ pc # "raised" =>
           \E i \in 1..Len(order) :
               /\ order[i] = SourceStage(call.source)
               /\ i < Len(order)
               /\ \A j \in (i + 1)..(Len(order) - 1) :
                      order[j] \in {"analyze", "persist"}
    /\ \A i \in 1..Len(files) :
           files[i] # "homepage.html" => pc = "done"

\* a run that went through every stage and returned
C8_Witness ==
    /\ pc = "done"
    /\ order = Pipeline
    /\ exit_code = 0

\* the sources that make requests
FetchSources == {"products", "collections", "sitemap", "tech"}

\* C9 as stated: a request that fails at transport level ends its source's
\* call with the ShopifyScraperError used for bad statuses, no URL is
\* requested twice, and a run that ends on a timed-out product request
\* raises a ShopifyScraperError.
C9_TransportFailureIsScrapeError ==
    /\ \A i, j \in 1..Len(requests) :
           i # j => requests[i].url # requests[j].url
    /\ (call.source \in FetchSources /\ requests # << >>
        /\ LastRequest.kind = "transport") =>
           /\ call.state = "raised"
           /\ call.error.type = "ShopifyScraperError"
           /\ pc = "raised" => error.type = "ShopifyScraperError"

\* the tag of an element without its "{namespace}" prefix
LocalName(tag) ==
    IF tag # << >> /\ tag[1] = "{"
    THEN SubSeq(tag, (CHOOSE i \in 1..Len(tag) : tag[i] = "}") + 1, Len(tag))
    ELSE tag

IsUrlsetRoot(entry) == Lower(LocalName(entry.tag)) = UrlsetTag

IsIndexRoot(entry) == Lower(LocalName(entry.tag)) = IndexTag

\* the number of entries the children requested so far yielded
RECURSIVE ChildEntries(_)
ChildEntries(i) ==
    IF i > Len(requests) THEN 0 ELSE requests[i].n + ChildEntries(i + 1)

\* C10 as stated: fetch_sitemap_urls raises ShopifyScraperError when the
\* root element is neither urlset nor sitemapindex, and when the root is a
\* sitemapindex whose children all failed to fetch or parse or yielded no
\* entry; it returns a list only for a urlset root or for a sitemapindex
\* with at least one entry collected.
C10_SitemapRootPolicy ==
    (call.source = "sitemap" /\ call.state # "running") =>
        LET root == requests[1]
        IN  /\ (root.tag # << >> /\ ~IsUrlsetRoot(root) /\ ~IsIndexRoot(root)) =>
                   /\ call.state = "raised"
                   /\ call.error.type = "ShopifyScraperError"
            /\ (IsIndexRoot(root) /\ ChildEntries(2) = 0) =>
                   /\ call.state = "raised"
                   /\ call.error.type = "ShopifyScraperError"
            /\ call.state = "returned" =>
                   \/ IsUrlsetRoot(root)
                   \/ IsIndexRoot(root) /\ sm_urls # << >>

\* ------------------------------------------------------------ claims C11-C20

\* C11: cluster_products raises ProductClusteringError whenever the table has
\* fewer than 5 rows; when it returns, the table has at least 5 rows, and
\* with no explicit cluster count the chosen k is n // 30 clamped to 2..10
\* (k = 2 below 60 rows, 30k <= n < 30(k+1) from 60 to 329 rows, k = 10 from
\* 300 rows on), so 2 <= k <= min(10, n) and 100 rows give k = 3; an explicit
\* k greater than n is reduced to n and one that is not is kept.
C11_ClusterCount ==
    (fn.op = "cluster_products" /\ fn.done) =>
        LET n == fn.arg.n_docs
            req == fn.arg.n_clusters
            k == fn.out.n_clusters
        IN  /\ n < 5 => fn.out.error.type = "ProductClusteringError"
            /\ fn.out.error = NoError =>
                   /\ n >= 5
                   /\ ~req.given =>
                          /\ 2 <= k /\ k <= 10 /\ k <= n
                          /\ n < 60 => k = 2
                          /\ (60 <= n /\ n < 300) => (30 * k <= n /\ n < 30 * (k + 1))
                          /\ n >= 300 => k = 10
                          /\ n = 100 => k = 3
                   /\ (req.given /\ req.value > n) => k = n
                   /\ (req.given /\ req.value <= n) => k = req.value

\* one hundred rows and no explicit count: three clusters
C11_Witness ==
    /\ fn.op = "cluster_products"
    /\ fn.done
    /\ fn.arg.n_docs = 100
    /\ ~fn.arg.n_clusters.given
    /\ fn.out.error = NoError
    /\ fn.out.n_clusters = 3

\* the part of a store reference that is its path: no blank inside
WellFormed(ref) == \A i \in 1..Len(ref.tail) : ref.tail[i] # " "

\* C12 as stated: two inputs that differ only by path, trailing slash or a
\* missing scheme (the same host, each with http://, https:// or no scheme,
\* as "example.com", "http://example.com/", "https://example.com/some/path")
\* normalize to the same base URL, which holds only scheme and host, and
\* normalizing the result returns it unchanged.
C12_NormalizeCanonical ==
    (fn.op = "normalize_store_url" /\ fn.done) =>
        LET a == fn.arg.a
            b == fn.arg.b
        IN  /\ (WellFormed(a) /\ WellFormed(b) /\ a.host = b.host) =>
                   fn.out.a = fn.out.b
            /\ WellFormed(a) =>
                   \E sc \in {HttpPrefix, HttpsPrefix} : fn.out.a = sc \o a.host
            /\ fn.out.again = fn.out.a

\* the segment names of a URL that a slash follows, in lower case
Directories(u) ==
    {LowerSegment(u.segs[i]) : i \in {j \in 1..Len(u.segs) : j < Len(u.segs) \/ u.slash}}

UrlTypes == {"product", "collection", "blog", "page", "other"}

\* C13: a sitemap URL is classified into exactly one of product, collection,
\* blog, page, other, by the first of /products/, /collections/, /blogs/,
\* /pages/ its path contains, in that order: a path with both /collections/
\* and /products/ is a product, one with none of the four is other; the
\* query plays no part.
C13_ClassifyPriority ==
    (fn.op = "classify_url" /\ fn.done) =>
        LET dirs == Directories(fn.arg)
        IN  /\ fn.out \in UrlTypes
            /\ fn.out = "product" <=> "products" \in dirs
            /\ fn.out = "collection" <=>
                   ("collections" \in dirs /\ "products" \notin dirs)
            /\ fn.out = "blog" <=>
                   ("blogs" \in dirs /\ dirs \cap {"products", "collections"} = {})
            /\ fn.out = "page" <=>
                   ("pages" \in dirs
                    /\ dirs \cap {"products", "collections", "blogs"} = {})
            /\ fn.out = "other" <=>
                   dirs \cap {"products", "collections", "blogs", "pages"} = {}

\* /collections/foo/products/ is classified product
C13_Witness ==
    /\ fn.op = "classify_url"
    /\ fn.done
    /\ fn.arg.segs = <<"collections", "foo", "products">>
    /\ fn.arg.slash
    /\ fn.out = "product"

\* a tag text without the blanks around it
Trimmed(t) ==
    CASE t = <<" ", "Red", " ">> -> <<"Red">>
      [] t = <<" ", "b">> -> <<"b">>
      [] t = <<" ">> -> << >>
      [] OTHER -> t

\* the trimmed texts that are not empty, in order
RECURSIVE ExpectedTags(_)
ExpectedTags(pieces) ==
    IF pieces = << >> THEN << >>
    ELSE (IF Trimmed(Head(pieces)) = << >> THEN << >> ELSE <<Trimmed(Head(pieces))>>)
         \o ExpectedTags(Tail(pieces))

\* no first variant, or one whose price is a number
PriceIsClean(p) ==
    \/ p.variants.kind = "missing"
    \/ p.variants.items = << >>
    \/ p.variants.items[1].price \in {"12.50", "7", "0.00"}

\* C14 as stated: tag normalization never raises: a list of strings and a
\* comma-separated string both give the trimmed, non-empty tokens in order,
\* duplicates kept; a product whose tag field is missing gets the empty list,
\* and products that all lack the field do not make fetch_products fail.
C14_TagsNeverRaise ==
    /\ (fn.op = "normalize_tags" /\ fn.done) =>
           fn.out = ExpectedTags(fn.arg.pieces)
    /\ (/\ fn.op = "normalize_products"
        /\ fn.done
        /\ \A i \in 1..Len(fn.arg) : PriceIsClean(fn.arg[i])
        /\ \E i \in 1..Len(fn.arg) : fn.arg[i].has_type) =>
               /\ fn.out.error = NoError
               /\ \A i \in 1..Len(fn.arg) :
                      fn.arg[i].tags.kind \in {"missing", "null"} =>
                          fn.out.tags_list[i] = << >>

\* the price a row should get: the number of the first variant, or None
ExpectedPrice(p) ==
    IF p.variants.kind = "missing" \/ p.variants.items = << >> THEN None
    ELSE CASE p.variants.items[1].price = "7" -> Some(700)
           [] p.variants.items[1].price = "12.50" -> Some(1250)
           [] p.variants.items[1].price = "0.00" -> Some(0)
           [] OTHER -> None

\* C15 as stated: price extraction never raises: first_variant_price is the
\* number of variant 0 when there is one and its price parses, null in every
\* other case (no variants, no price, a price that is no number), so such a
\* product does not make fetch_products fail; the price summary counts the
\* rows whose price is not null.
C15_PriceNeverRaises ==
    (/\ fn.op = "normalize_products"
     /\ fn.done
     /\ \E i \in 1..Len(fn.arg) : fn.arg[i].tags.kind # "missing"
     /\ \E i \in 1..Len(fn.arg) : fn.arg[i].has_type) =>
            /\ fn.out.error = NoError
            /\ \A i \in 1..Len(fn.arg) :
                   fn.out.first_variant_price[i] = ExpectedPrice(fn.arg[i])
            /\ DictGet(fn.out.price_stats, "count", 0) =
                   Cardinality({i \in 1..Len(fn.arg) : ExpectedPrice(fn.arg[i]).given})

\* the number a raw collection's products_count stands for, None when it has
\* none
ExpectedCount(c) ==
    IF ~HasCount(c) THEN None
    ELSE CASE c.products_count = CountInt(0) -> Some(0)
           [] c.products_count = CountInt(5) -> Some(5)
           [] c.products_count = CountText("12") -> Some(12)
           [] OTHER -> None

\* C16: when summarize_collections returns, in the collections table
\* products_count is null in every row, never zero, when no collection
\* carries the field, and the number it stands for when it is present;
\* collections_with_product_counts is the number of rows
\* with a non-null count and the top list has one entry for each of them, in
\* descending order: none for a store that omits the field, while a
\* collection with products_count = 0 is counted and listed.
C16_ProductsCountNullable ==
    (fn.op = "summarize_collections" /\ fn.done /\ fn.out.error = NoError) =>
        LET raw == fn.arg
            col == fn.out.table.products_count
            top == fn.out.summary.top_collections_by_products
            counted == {i \in 1..Len(raw) : ExpectedCount(raw[i]).given}
        IN  /\ Len(col) = Len(raw)
            /\ \A i \in 1..Len(raw) : col[i] = ExpectedCount(raw[i])
            /\ (\A i \in 1..Len(raw) : ~HasCount(raw[i])) =>
                   /\ \A i \in 1..Len(raw) : col[i] = None /\ col[i] # Some(0)
                   /\ fn.out.summary.collections_with_product_counts = 0
                   /\ top = << >>
            /\ fn.out.summary.collections_with_product_counts = Cardinality(counted)
            /\ Len(top) = Cardinality(counted)
            /\ \A i \in 1..(Len(top) - 1) :
                   top[i].products_count >= top[i + 1].products_count
            /\ \A v \in {0, 5, 12} :
                   Cardinality({i \in 1..Len(top) : top[i].products_count = v})
                       = Cardinality({i \in counted : ExpectedCount(raw[i]).value = v})
            /\ fn.out.summary.n_collections = Len(raw)

\* one collection without the field and one with products_count = 0: one
\* collection with a count, listed with 0
C16_Witness ==
    /\ fn.op = "summarize_collections"
    /\ fn.done
    /\ fn.arg = <<[handle |-> "c"], [handle |-> "c", products_count |-> CountInt(0)]>>
    /\ fn.out.table.products_count = <<None, Some(0)>>
    /\ fn.out.summary.collections_with_product_counts = 1
    /\ fn.out.summary.top_collections_by_products = <<[products_count |-> 0]>>

\* the positions of the <sitemap> children of the index that have a <loc>,
\* from position i on, in order
RECURSIVE ListedFrom(_, _)
ListedFrom(sitemaps, i) ==
    IF i > Len(sitemaps) THEN << >>
    ELSE (IF sitemaps[i] THEN <<i>> ELSE << >>) \o ListedFrom(sitemaps, i + 1)

\* C17 as stated: when the root is a sitemapindex, the call of
\* fetch_sitemap_urls has requested every listed child once, in listed
\* order, and nothing else, so that it made 1 + (number of listed children)
\* requests; a child answered with a bad status, an unparsable document or a
\* root that is no urlset contributed no entry and did not end the walk; the
\* entries collected are those of the urlset children in child order.
C17_IndexChildrenOnce ==
    (/\ call.source = "sitemap"
     /\ call.state \in {"returned", "raised"}
     /\ IsIndexRoot(requests[1])) =>
        LET listed == ListedFrom(sm_root.sitemaps, 1)
        IN  /\ Len(requests) = 1 + Len(listed)
            /\ \A k \in 1..Len(listed) :
                   /\ requests[k + 1].url = ChildUrl(listed[k])
                   /\ requests[k + 1].kind = "http"
                   /\ (requests[k + 1].status # OkStatus
                       \/ ~IsUrlsetRoot(requests[k + 1])) => requests[k + 1].n = 0
            /\ Len(sm_urls) = ChildEntries(2)
            /\ \A i \in 1..Len(sm_urls) :
                   /\ \E k \in 1..Len(listed) :
                          /\ sm_urls[i].loc[2] = listed[k]
                          /\ IsUrlsetRoot(requests[k + 1])
                   /\ i < Len(sm_urls) => sm_urls[i].loc[2] <= sm_urls[i + 1].loc[2]

\* the stages in which a soft source is attempted
SoftStages == {"cluster", "collections", "sitemap", "tech"}

\* every soft source was attempted and its key is in the profile
Assembled(prof, entered) ==
    /\ SoftStages \subseteq {entered[i] : i \in 1..Len(entered)}
    /\ {"n_products", "store_url", "store_slug", "clustering", "collections",
        "sitemap", "tech_stack"} \subseteq DOMAIN prof

\* C18 as stated: persistence is a final, separate step: a step of a run
\* that writes a file under the store's directory is taken after the blocks
\* of all four soft sources ended, with the profile assembled, and no step
\* that writes a file or follows one changes the profile.
C18_PersistenceLast ==
    [][/\ files' # files => (pc \notin SoftStages /\ Assembled(profile, order))
       /\ (files' # files \/ files # << >>) => profile' = profile]_vars

\* the type of the three URLs of the entries
EntryType(loc) ==
    IF loc = PageUrl(<<"pages", "c">>, FALSE, << >>).text THEN "page" ELSE "product"

\* the positions of the entries of a type
PositionsOf(entries, t) == {i \in 1..Len(entries) : EntryType(entries[i].loc) = t}

RECURSIVE SumCounts(_, _)
SumCounts(counts, types) ==
    IF types = {} THEN 0
    ELSE LET t == CHOOSE x \in types : TRUE
         IN  counts[t] + SumCounts(counts, types \ {t})

\* what C19 and its amendment share: total_urls is the number of entries and
\* the sum of the per-type counts, and the examples of a type are the locs
\* of its first min(count, N) entries, in order
CountsAndExamples ==
    LET es == fn.arg.entries
    IN  /\ fn.out.total_urls = Len(es)
        /\ fn.out.total_urls = SumCounts(fn.out.by_type, DOMAIN fn.out.by_type)
        /\ \A t \in UrlTypes :
               LET pos == PositionsOf(es, t)
                   ex == DictGet(fn.out.example_urls, t, << >>)
               IN  /\ DictGet(fn.out.by_type, t, 0) = Cardinality(pos)
                   /\ Len(ex) = Min(Cardinality(pos), fn.arg.cap)
                   /\ \A k \in 1..Len(ex) :
                          \E i \in pos :
                              /\ ex[k] = es[i].loc
                              /\ Cardinality({j \in pos : j < i}) = k - 1

\* C19 as stated: total_urls, the per-type counts and the examples as
\* above; latest_lastmod is the greatest lastmod string among the entries
\* whose lastmod is not null, and null when no entry has one.
C19_SummaryAsStated ==
    (fn.op = "summarize_sitemap" /\ fn.done) =>
        LET es == fn.arg.entries
            dated == {i \in 1..Len(es) : es[i].lastmod.given}
        IN  /\ CountsAndExamples
            /\ dated = {} => fn.out.latest_lastmod = NoLastmod
            /\ dated # {} =>
                   /\ fn.out.latest_lastmod.given
                   /\ \E i \in dated : es[i].lastmod = fn.out.latest_lastmod
                   /\ \A i \in dated : StrLeq(es[i].lastmod.text, fn.out.latest_lastmod.text)

\* C19 amended: total_urls, the per-type counts and the examples as above;
\* latest_lastmod is the greatest lastmod string among the entries whose
\* lastmod is neither null nor the empty string, and null when no entry has
\* such a lastmod (an entry whose lastmod is "" counts as having none).
C19_SummaryNonEmptyLastmod ==
    (fn.op = "summarize_sitemap" /\ fn.done) =>
        LET es == fn.arg.entries
            dated == {i \in 1..Len(es) :
                         es[i].lastmod.given /\ Len(es[i].lastmod.text) > 0}
        IN  /\ CountsAndExamples
            /\ dated = {} => fn.out.latest_lastmod = NoLastmod
            /\ dated # {} =>
                   /\ fn.out.latest_lastmod.given
                   /\ \E i \in dated : es[i].lastmod = fn.out.latest_lastmod
                   /\ \A i \in dated : StrLeq(es[i].lastmod.text, fn.out.latest_lastmod.text)

\* three entries, two of them products, a cap of one: one example for the
\* products, and the greatest lastmod "9" although "24" came later
C19_Witness ==
    /\ fn.op = "summarize_sitemap"
    /\ fn.done
    /\ fn.arg.cap = 1
    /\ Len(fn.arg.entries) = 3
    /\ fn.out.by_type["product"] = 2
    /\ Len(fn.out.example_urls["product"]) = 1
    /\ fn.out.example_urls["product"][1] = fn.arg.entries[1].loc
    /\ fn.arg.entries[1].lastmod = Lastmod(<<9>>)
    /\ fn.arg.entries[3].lastmod = Lastmod(<<2, 4>>)
    /\ fn.out.latest_lastmod = Lastmod(<<9>>)

\* C20 as stated: in a returned profile the field of a soft source is the
\* empty structure if and only if the call of that source (its fetch, parse
\* or summarization) raised: a source that returned never gives an empty
\* field, and no other failure empties a field.
C20_EmptyIffSourceFailed ==
    returned =>
        \A source \in SoftSources :
            IsEmptyDict(profile[SourceKey(source)]) <=> source \in failed

\* the collections artifacts of step 4 of generate_store_report
CollectionsArtifacts == {"collections.parquet", "collections_summary.csv"}

\* the files written in the run so far
FilesWritten == {files[i] : i \in 1..Len(files)}

\* C21 as stated: in a run that returned its profile the collections table
\* and the key-fields collections summary table are written if and only if
\* the collections summary of the profile is non-empty; a run whose
\* collections summary is empty writes neither.
C21_CollectionsArtifactsIffSummary ==
    returned =>
        \A file \in CollectionsArtifacts :
            file \in FilesWritten <=> ~IsEmptyDict(profile["collections"])

====
